---------------------------- MODULE Spec2Model ----------------------------
(***************************************************************************)
(* A model of git-release-helper (src/git_release_helper): the tag name    *)
(* generator, the commit/ticket scanner, the Jira enrichment connector,    *)
(* the message renderer and the release command that sequences them.     *)
(*                                                                         *)
(* Text is modelled as a sequence of symbols.  Tag names, ticket ids,      *)
(* commit messages and regular expressions are sequences of one-character  *)
(* strings; a template is a sequence whose placeholders and literal runs   *)
(* are single symbols.                                                     *)
(***************************************************************************)
EXTENDS Integers, Sequences, FiniteSets, TLC

VARIABLES
    call,            \* harness: the function under test and its arguments
    ret,             \* harness: <<>> before the call, <<result>> after it
    \* the repository
    parents,         \* commit -> the set of its parent commits
    head,            \* the commit HEAD (the tip of the current branch) is at
    branch,          \* repo.active_branch.name
    tags,            \* repo.tags: tag name -> commit
    remote_ref,      \* the commit of the remote ref named like the branch, 0: none
    upstream_tags,   \* tags of the remote that the repository does not have yet
    \* one run of the release command
    pc,              \* the state of the run
    opts,            \* the command line: [tag, force, show_config]
    echoed,          \* --show-config: the files found and the sections printed
    config,          \* the settings the run reads
    tag,             \* the tag name handle_tag returned
    tag_exists,      \* the flag handle_tag returned
    tickets,         \* prepare_release: the extracted tickets
    ticket_details,  \* prepare_release: ticket -> [title, status]
    release_message, \* the rendered message
    \* what happened in the run
    start,           \* the repository when the run started
    asked,           \* the prompts shown, each with its answer
    pull,            \* the outcome of repo.remotes.origin.pull()
    enrich,          \* the outcomes of the connector's network calls
    created,         \* the names repo.create_tag created
    trace,           \* the states the run went through
    exit_reason      \* why the run ended

harnessVars == <<call, ret>>

repoVars == <<parents, head, branch, tags, remote_ref, upstream_tags>>

runVars == <<pc, opts, echoed, config, tag, tag_exists, tickets, ticket_details,
             release_message, start, asked, pull, enrich, created, trace,
             exit_reason>>

vars == <<call, ret, parents, head, branch, tags, remote_ref, upstream_tags,
          pc, opts, echoed, config, tag, tag_exists, tickets, ticket_details,
          release_message, start, asked, pull, enrich, created, trace,
          exit_reason>>

-----------------------------------------------------------------------------
(* Characters and strings *)

Digits == {"0", "1", "2", "3", "4", "5", "6", "7", "8", "9"}

\* Code points of the characters the model uses: Python compares str values
\* code point by code point.
CharTable ==
    { <<"\n", 10>>, <<" ", 32>>, <<"#", 35>>, <<"(", 40>>, <<")", 41>>,
      <<"+", 43>>, <<"-", 45>>, <<".", 46>>, <<"0", 48>>, <<"1", 49>>,
      <<"2", 50>>, <<"3", 51>>, <<"4", 52>>, <<"5", 53>>, <<"6", 54>>,
      <<"7", 55>>, <<"8", 56>>, <<"9", 57>>, <<":", 58>>, <<"A", 65>>,
      <<"B", 66>>, <<"C", 67>>, <<"D", 68>>, <<"E", 69>>, <<"F", 70>>,
      <<"G", 71>>, <<"H", 72>>, <<"I", 73>>, <<"J", 74>>, <<"K", 75>>,
      <<"L", 76>>, <<"M", 77>>, <<"N", 78>>, <<"O", 79>>, <<"P", 80>>,
      <<"Q", 81>>, <<"R", 82>>, <<"S", 83>>, <<"T", 84>>, <<"U", 85>>,
      <<"V", 86>>, <<"W", 87>>, <<"X", 88>>, <<"Y", 89>>, <<"Z", 90>>,
      <<"[", 91>>, <<"\\", 92>>, <<"]", 93>>, <<"a", 97>>,
      <<"b", 98>>, <<"c", 99>>, <<"d", 100>>, <<"e", 101>>, <<"f", 102>>,
      <<"g", 103>>, <<"h", 104>>, <<"i", 105>>, <<"j", 106>>,
      <<"k", 107>>, <<"l", 108>>, <<"m", 109>>, <<"n", 110>>,
      <<"o", 111>>, <<"p", 112>>, <<"q", 113>>, <<"r", 114>>,
      <<"s", 115>>, <<"t", 116>>, <<"u", 117>>, <<"v", 118>>,
      <<"w", 119>>, <<"x", 120>>, <<"y", 121>>, <<"z", 122>> }

CharCode ==
    [c \in {p[1] : p \in CharTable} |-> (CHOOSE p \in CharTable : p[1] = c)[2]]

Alphabet == DOMAIN CharCode

\* . in a regular expression: any character but a newline.
AnyChar == Alphabet \ {"\n"}

Whitespace == {" ", "\n"}

DigitVal(c) == CharCode[c] - 48

DigitChar(n) == CHOOSE c \in Digits : DigitVal(c) = n

\* int(s) for a non-empty string of digits.
RECURSIVE ParseInt(_)
ParseInt(s) ==
    IF s = <<>> THEN 0
    ELSE 10 * ParseInt(SubSeq(s, 1, Len(s) - 1)) + DigitVal(s[Len(s)])

\* str(n) for n >= 0.
RECURSIVE IntToStr(_)
IntToStr(n) ==
    IF n < 10 THEN <<DigitChar(n)>>
    ELSE IntToStr(n \div 10) \o <<DigitChar(n % 10)>>

\* strftime's zero-padded two-digit field.
Pad2(n) == <<DigitChar((n \div 10) % 10), DigitChar(n % 10)>>

\* strftime("%Y") for a four-digit year.
Pad4(n) == Pad2(n \div 100) \o Pad2(n % 100)

\* str.replace(old, new): every non-overlapping occurrence, left to right.
RECURSIVE ReplaceFrom(_, _, _, _)
ReplaceFrom(s, i, old, new) ==
    IF i > Len(s) THEN <<>>
    ELSE IF i + Len(old) - 1 <= Len(s) /\ SubSeq(s, i, i + Len(old) - 1) = old
         THEN new \o ReplaceFrom(s, i + Len(old), old, new)
         ELSE <<s[i]>> \o ReplaceFrom(s, i + 1, old, new)

Replace(s, old, new) == ReplaceFrom(s, 1, old, new)

\* s < t, as Python orders two str values.
RECURSIVE StrLess(_, _)
StrLess(s, t) ==
    IF t = <<>> THEN FALSE
    ELSE IF s = <<>> THEN TRUE
    ELSE IF s[1] = t[1] THEN StrLess(Tail(s), Tail(t))
    ELSE CharCode[s[1]] < CharCode[t[1]]

SetMax(S) == CHOOSE x \in S : \A y \in S : y <= x

-----------------------------------------------------------------------------
(* Regular expressions: the part of Python's re syntax the tag pattern   *)
(* and the ticket pattern use.  A compiled pattern is a sequence of atoms  *)
(* (a character class, greedy + or not) and the span gs..ge of the atoms *)
(* inside its first capturing group (0 when it has none).                  *)

Atom(cls, plus) == [cls |-> cls, plus |-> plus]

\* The first index >= i of symbol c in p (Len(p) + 1 when there is none).
RECURSIVE IndexFrom(_, _, _)
IndexFrom(p, i, c) ==
    IF i > Len(p) THEN i
    ELSE IF p[i] = c THEN i ELSE IndexFrom(p, i + 1, c)

\* The class a bracket expression [body] denotes: 0-9 or listed characters.
BracketClass(body) ==
    IF body = <<"0", "-", "9">> THEN Digits
    ELSE {body[k] : k \in 1..Len(body)}

RECURSIVE RegexParse(_, _, _)
RegexParse(p, i, r) ==
    IF i > Len(p) THEN r
    ELSE
      CASE p[i] = "." ->
             RegexParse(p, i + 1, [r EXCEPT !.atoms = Append(@, Atom(AnyChar, FALSE))])
        [] p[i] = "\\" ->
             RegexParse(p, i + 2,
                [r EXCEPT !.atoms = Append(@,
                    IF p[i + 1] = "d" THEN Atom(Digits, FALSE)
                    ELSE Atom({p[i + 1]}, FALSE))])
        [] p[i] = "[" ->
             LET j == IndexFrom(p, i + 1, "]")
             IN RegexParse(p, j + 1,
                   [r EXCEPT !.atoms =
                       Append(@, Atom(BracketClass(SubSeq(p, i + 1, j - 1)), FALSE))])
        [] p[i] = "(" ->
             RegexParse(p, i + 1,
                IF r.gs = 0 THEN [r EXCEPT !.gs = Len(r.atoms) + 1] ELSE r)
        [] p[i] = ")" ->
             RegexParse(p, i + 1,
                IF r.ge = 0 THEN [r EXCEPT !.ge = Len(r.atoms)] ELSE r)
        [] p[i] = "+" ->
             RegexParse(p, i + 1, [r EXCEPT !.atoms[Len(r.atoms)].plus = TRUE])
        [] OTHER ->
             RegexParse(p, i + 1, [r EXCEPT !.atoms = Append(@, Atom({p[i]}, FALSE))])

\* re.compile(p).  The patterns of this model put + after an atom only.
RegexCompile(p) == RegexParse(p, 1, [atoms |-> <<>>, gs |-> 0, ge |-> 0])

\* The number of consecutive symbols of s from position j that are in cls.
RECURSIVE RunLength(_, _, _)
RunLength(s, j, cls) ==
    IF j <= Len(s) /\ s[j] \in cls THEN 1 + RunLength(s, j + 1, cls) ELSE 0

\* The backtracking matcher: atoms k.. of the pattern against s from
\* position j.  {} when there is no match, else {ends}: ends[i] is the
\* position after atom k+i-1 in the first match in backtracking order
\* (a + takes as many symbols as it can and gives back one at a time).
RECURSIVE RegexRun(_, _, _, _)
RECURSIVE RegexPlus(_, _, _, _, _)
RegexRun(atoms, s, k, j) ==
    IF k > Len(atoms) THEN {<<>>}
    ELSE IF atoms[k].plus
         THEN RegexPlus(atoms, s, k, j, RunLength(s, j, atoms[k].cls))
         ELSE IF j <= Len(s) /\ s[j] \in atoms[k].cls
              THEN {<<j + 1>> \o e : e \in RegexRun(atoms, s, k + 1, j + 1)}
              ELSE {}

RegexPlus(atoms, s, k, j, n) ==
    IF n = 0 THEN {}
    ELSE LET rest == RegexRun(atoms, s, k + 1, j + n)
         IN IF rest # {} THEN {<<j + n>> \o e : e \in rest}
            ELSE RegexPlus(atoms, s, k, j, n - 1)

\* The match object of a match of rx starting at position i of s:
\* {} or {[end, group]}, group being group(1) when the pattern has a
\* capturing group and group(0) otherwise.
RegexMatchAt(rx, s, i) ==
    LET m == RegexRun(rx.atoms, s, 1, i)
    IN { LET end == IF e = <<>> THEN i ELSE e[Len(e)]
             from == IF rx.gs <= 1 THEN i ELSE e[rx.gs - 1]
             to == IF rx.ge = 0 THEN end ELSE e[rx.ge]
         IN [end |-> end, whole |-> SubSeq(s, i, end - 1),
             group |-> IF rx.gs = 0 THEN SubSeq(s, i, end - 1)
                       ELSE SubSeq(s, from, to - 1)] : e \in m }

\* regex.match(s): a match anchored at the start of s, not at its end.
RegexMatch(rx, s) == RegexMatchAt(rx, s, 1)

\* regex.findall(s): the non-overlapping matches from left to right; each is
\* reported as group(1) when the pattern has a capturing group, else group(0).
RECURSIVE FindAllFrom(_, _, _)
FindAllFrom(rx, s, i) ==
    IF i > Len(s) THEN <<>>
    ELSE LET m == RegexMatchAt(rx, s, i)
         IN IF m = {} THEN FindAllFrom(rx, s, i + 1)
            ELSE LET mo == CHOOSE x \in m : TRUE
                 IN <<mo.group>> \o
                    FindAllFrom(rx, s, IF mo.end > i THEN mo.end ELSE i + 1)

FindAll(rx, s) == FindAllFrom(rx, s, 1)

-----------------------------------------------------------------------------
(* cli.py: generate_tag_name *)

\* today.strftime(...) substituted for the date placeholders, in the code's order.
TagBase(tag_format, today) ==
    LET b1 == Replace(tag_format, <<"Y", "Y", "Y", "Y">>, Pad4(today.year))
        b2 == Replace(b1, <<"Y", "Y">>, Pad2(today.year % 100))
        b3 == Replace(b2, <<"M", "M">>, Pad2(today.month))
    IN Replace(b3, <<"D", "D">>, Pad2(today.day))

\* tag_base.replace("N", r"(\d+)")
TagPattern(tag_base) == Replace(tag_base, <<"N">>, <<"(", "\\", "d", "+", ")">>)

\* The numbers of matching_tags: int(match.group(1)) of every tag the regex matches.
MatchingNumbers(tag_names, tag_regex) ==
    { ParseInt((CHOOSE m \in RegexMatch(tag_regex, t) : TRUE).group) :
        t \in { u \in tag_names : RegexMatch(tag_regex, u) # {} } }

NextN(matching) == IF matching = {} THEN 1 ELSE SetMax(matching) + 1

\* tag_names: the names of repo.tags.
GenerateTagName(tag_names, tag_format, today) ==
    LET tag_base == TagBase(tag_format, today)
        tag_regex == RegexCompile(TagPattern(tag_base))
        next_n == NextN(MatchingNumbers(tag_names, tag_regex))
    IN Replace(tag_base, <<"N">>, IntToStr(next_n))

-----------------------------------------------------------------------------
(* Inputs of generate_tag_name *)

MaxTags == 3

D20240101 == <<"2", "0", "2", "4", "0", "1", "0", "1">>

\* YYYYMMDD.N (the default), vN, v+N, YY.MM.N
TagFormats ==
    { <<"Y", "Y", "Y", "Y", "M", "M", "D", "D", ".", "N">>,
      <<"v", "N">>,
      <<"v", "+", "N">>,
      <<"Y", "Y", ".", "M", "M", ".", "N">> }

Todays == { [year |-> 2024, month |-> 1, day |-> 1],
            [year |-> 2023, month |-> 12, day |-> 31] }

\* 20240101.1 20240101.2 20240101.10 20240101x5 20240101.3-rc 20231231.4
\* v1 v+1 vv2 24.01.1
TagUniverse ==
    { D20240101 \o <<".", "1">>,
      D20240101 \o <<".", "2">>,
      D20240101 \o <<".", "1", "0">>,
      D20240101 \o <<"x", "5">>,
      D20240101 \o <<".", "3", "-", "r", "c">>,
      <<"2", "0", "2", "3", "1", "2", "3", "1", ".", "4">>,
      <<"v", "1">>,
      <<"v", "+", "1">>,
      <<"v", "v", "2">>,
      <<"2", "4", ".", "0", "1", ".", "1">> }

TagSets == { S \in SUBSET TagUniverse : Cardinality(S) <= MaxTags }

-----------------------------------------------------------------------------
(* cli.py: extract_tickets_from_commits *)

\* str.strip(): leading and trailing whitespace removed.
RECURSIVE LStrip(_)
LStrip(s) == IF s # <<>> /\ s[1] \in Whitespace THEN LStrip(Tail(s)) ELSE s

RECURSIVE RStrip(_)
RStrip(s) ==
    IF s # <<>> /\ s[Len(s)] \in Whitespace
    THEN RStrip(SubSeq(s, 1, Len(s) - 1)) ELSE s

Strip(s) == RStrip(LStrip(s))

Range(f) == {f[i] : i \in DOMAIN f}

\* The loop over the commits: tickets.update(findall(message.strip())).
RECURSIVE TicketLoop(_, _, _, _)
TicketLoop(commits, i, ticket_regex, found) ==
    IF i > Len(commits) THEN found
    ELSE TicketLoop(commits, i + 1, ticket_regex,
                    found \cup Range(FindAll(ticket_regex, Strip(commits[i]))))

\* sorted(S) for a set of str.
RECURSIVE Sorted(_)
Sorted(S) ==
    IF S = {} THEN <<>>
    ELSE LET least == CHOOSE x \in S : \A y \in S \ {x} : StrLess(x, y)
         IN <<least>> \o Sorted(S \ {least})

\* A variant that keeps the order of first appearance instead of sorting.
RECURSIVE FirstSeen(_, _)
FirstSeen(items, i) ==
    IF i > Len(items) THEN <<>>
    ELSE IF \E k \in 1..(i - 1) : items[k] = items[i] THEN FirstSeen(items, i + 1)
         ELSE <<items[i]>> \o FirstSeen(items, i + 1)

RECURSIVE AllFound(_, _, _)
AllFound(commits, i, ticket_regex) ==
    IF i > Len(commits) THEN <<>>
    ELSE FindAll(ticket_regex, Strip(commits[i])) \o AllFound(commits, i + 1, ticket_regex)

ExtractTicketsFirstSeen(commits, ticket_pattern) ==
    FirstSeen(AllFound(commits, 1, RegexCompile(ticket_pattern)), 1)

\* commits: the commit messages, in the order the caller iterates them.
ExtractTicketsFromCommits(commits, ticket_pattern) ==
    Sorted(TicketLoop(commits, 1, RegexCompile(ticket_pattern), {}))

-----------------------------------------------------------------------------
(* Inputs of extract_tickets_from_commits *)

MaxCommitList == 3

ALLI == <<"A", "L", "L", "I">>

\* ALLI-[0-9]+ (the default)
DefaultTicketPattern == ALLI \o <<"-", "[", "0", "-", "9", "]", "+">>

\* ALLI-([0-9]+): the same tickets, with the number in a capturing group
GroupedTicketPattern == ALLI \o <<"-", "(", "[", "0", "-", "9", "]", "+", ")">>

TicketPatterns == {DefaultTicketPattern, GroupedTicketPattern}

\* "ALLI-12: fix bug"
Msg12 == ALLI \o <<"-", "1", "2", ":", " ", "f", "i", "x", " ", "b", "u", "g">>

\* "unrelated change"
MsgNone == <<"u", "n", "r", "e", "l", "a", "t", "e", "d", " ",
             "c", "h", "a", "n", "g", "e">>

\* "ALLI-7 and ALLI-12 duplicate"
Msg7and12 == ALLI \o <<"-", "7", " ", "a", "n", "d", " ">> \o ALLI \o
             <<"-", "1", "2", " ", "d", "u", "p", "l", "i", "c", "a", "t", "e">>

\* "ALLI-3\n"
Msg3 == ALLI \o <<"-", "3", "\n">>

Messages == {Msg12, MsgNone, Msg7and12, Msg3}

CommitLists == UNION { [1..n -> Messages] : n \in 0..MaxCommitList }

Reorderings(n) == { f \in [1..n -> 1..n] : \A i, j \in 1..n : f[i] = f[j] => i = j }

-----------------------------------------------------------------------------
(* The repository, as GitPython shows it to cli.py.  Commits are numbered  *)
(* in the order of their committed_datetime.                               *)

NCommits == 3

Commits == 1..NCommits

EmptyFn == [x \in {} |-> 0]

\* The commits reachable from c, c included.
RECURSIVE Ancestors(_, _)
Ancestors(par, c) == {c} \cup UNION { Ancestors(par, p) : p \in par[c] }

\* A set of commits as a list, the latest first (the order of iter_commits).
RECURSIVE LatestFirst(_)
LatestFirst(S) ==
    IF S = {} THEN <<>>
    ELSE <<SetMax(S)>> \o LatestFirst(S \ {SetMax(S)})

\* repo.iter_commits("a..b"): reachable from b and not from a; a = 0 is
\* iter_commits() with no range.
IterCommits(par, a, b) ==
    LatestFirst(Ancestors(par, b) \ (IF a = 0 THEN {} ELSE Ancestors(par, a)))

\* The histories: a chain of commits, the last commit made on any earlier one
\* (on the tip of the chain or on a side branch).
Histories ==
    { [c \in Commits |->
          IF c = 1 THEN {} ELSE IF c < NCommits THEN {c - 1} ELSE {p}] :
        p \in 1..(NCommits - 1) }

\* "Merge branch ..."
MsgMerge == <<"M", "e", "r", "g", "e">>

CommitMessages == <<Msg12, MsgNone, Msg7and12, Msg3>>

\* commit.message
MessageOf(c) ==
    IF c > NCommits THEN MsgMerge
    ELSE CommitMessages[((c - 1) % Len(CommitMessages)) + 1]

-----------------------------------------------------------------------------
(* config.py: the settings the release command reads *)

DefaultBranches == {"main", "master"}

DefaultTagFormat == <<"Y", "Y", "Y", "Y", "M", "M", "D", "D", ".", "N">>

Today == [year |-> 2024, month |-> 1, day |-> 1]

ProjectName == <<"demo">>

-----------------------------------------------------------------------------
(* cli.py: validate_branch, handle_tag, find_last_tag, check_remote_branch *)

\* validate_branch asks "Do you want to proceed anyway?"
NeedsBranchConfirmIgnoringForce(current_branch, force) ==
    current_branch \notin DefaultBranches

NeedsBranchConfirm(current_branch, force) ==
    current_branch \notin DefaultBranches /\ ~force

\* find_last_tag: sorted(repo.tags, key=committed_datetime, reverse=True)[0].
\* repo.tags is in name order and the sort is stable, so of the tags on the
\* latest commit the first by name is taken.  <<>> is None.
FindLastTag(tgs) ==
    IF DOMAIN tgs = {} THEN <<>>
    ELSE <<CHOOSE t \in DOMAIN tgs :
             \A u \in DOMAIN tgs \ {t} :
                \/ tgs[t] > tgs[u]
                \/ tgs[t] = tgs[u] /\ StrLess(t, u)>>

\* behind_count
BehindCount(par, hd, ref) == Cardinality(Ancestors(par, ref) \ Ancestors(par, hd))

\* The pull runs whatever the answer to the prompt.
PullWantedUnasked(behind_count, answer) == behind_count > 0

\* check_remote_branch pulls when the branch is behind and the user agrees.
PullWanted(behind_count, answer) == behind_count > 0 /\ answer

\* The fetch of a pull follows tags: it adds the remote's tags whose names
\* the repository does not have and leaves the others as they are.
FetchTags(tgs, remote_tags) == tgs @@ remote_tags

\* The outcomes of repo.remotes.origin.pull(): done, failed before anything
\* was fetched, or failed in the merge after the fetch.  A failure raises
\* GitCommandError.
PullOutcomes == {"ok", "fetch_failed", "merge_failed"}

-----------------------------------------------------------------------------
(* connectors/jira.py *)

LookupOutcomes == {"ok", "http_error", "net_error"}

\* The entry get_ticket_details stores for one ticket (the url is left out).
JiraEntry(outcome) ==
    CASE outcome = "ok" ->
           [title |-> <<"Fix login">>, status |-> <<"Done">>]
      [] outcome = "http_error" ->
           [title |-> <<"Could not fetch ticket details">>, status |-> <<"Unknown">>]
      [] outcome = "net_error" ->
           [title |-> <<"Error fetching ticket: ", "timeout">>, status |-> <<"Error">>]

\* get_ticket_details without the validation: with the tracker unreachable
\* every request fails.
GetTicketDetailsUnvalidated(ticket_ids, valid, outcome) ==
    IF ticket_ids = <<>> THEN EmptyFn
    ELSE [t \in Range(ticket_ids) |->
             JiraEntry(IF valid THEN outcome[t] ELSE "net_error")]

\* get_ticket_details leaving out the tickets whose request failed.
GetTicketDetailsSkipFailed(ticket_ids, valid, outcome) ==
    IF ticket_ids = <<>> \/ ~valid THEN EmptyFn
    ELSE [t \in { u \in Range(ticket_ids) : outcome[u] = "ok" } |-> JiraEntry(outcome[t])]

\* get_ticket_details(ticket_ids): valid is what validate_connection returns,
\* outcome[t] how the request for ticket t ends.
GetTicketDetails(ticket_ids, valid, outcome) ==
    IF ticket_ids = <<>> \/ ~valid THEN EmptyFn
    ELSE [t \in Range(ticket_ids) |-> JiraEntry(outcome[t])]

-----------------------------------------------------------------------------
(* cli.py: generate_release_message *)

\* The templates ensure_templates_dir writes; GRAVE stands for the grave
\* accent character.
ReadTemplate(format_to_use) ==
    IF format_to_use = "markdown"
    THEN <<"# Deploying ", "[PROJECT_NAME]", " ", "GRAVE", "[TAG_NAME]", "GRAVE",
           "\n\n", "## Tickets:\n", "[TICKETS_LIST]">>
    ELSE <<"Deploying ", "[PROJECT_NAME]", " ", "[TAG_NAME]", "\n\n",
           "Tickets:\n", "[TICKETS_LIST]">>

\* "\n".join(lines)
RECURSIVE JoinLines(_)
JoinLines(lines) ==
    IF lines = <<>> THEN <<>>
    ELSE IF Len(lines) = 1 THEN lines[1]
    ELSE lines[1] \o <<"\n">> \o JoinLines(Tail(lines))

\* One line of the ticket list that gives the status without the title too.
TicketLineAnyField(ticket, details) ==
    LET title == IF ticket \in DOMAIN details THEN details[ticket].title ELSE <<>>
        status == IF ticket \in DOMAIN details THEN details[ticket].status ELSE <<>>
    IN IF title # <<>> \/ status # <<>>
       THEN <<"- ">> \o ticket \o <<": ">> \o title \o <<" (">> \o status \o <<")">>
       ELSE <<"- ">> \o ticket

\* One line of the ticket list, given ticket_details.
TicketLine(ticket, details) ==
    LET title == IF ticket \in DOMAIN details THEN details[ticket].title ELSE <<>>
        status == IF ticket \in DOMAIN details THEN details[ticket].status ELSE <<>>
    IN IF title # <<>> /\ status # <<>>
       THEN <<"- ">> \o ticket \o <<": ">> \o title \o <<" (">> \o status \o <<")">>
       ELSE IF title # <<>> THEN <<"- ">> \o ticket \o <<": ">> \o title
       ELSE <<"- ">> \o ticket

TicketsList(tkts, details) ==
    IF tkts # <<>>
    THEN IF DOMAIN details # {}
         THEN JoinLines([i \in 1..Len(tkts) |-> TicketLine(tkts[i], details)])
         ELSE JoinLines([i \in 1..Len(tkts) |-> <<"- ">> \o tkts[i]])
    ELSE <<"No tickets found in this release.">>

\* generate_release_message, lines 101-112: the content of the template
\* file of the format; files is the templates directory, a function from the
\* formats that have a readable file to its content.  ReadTemplate is the
\* fallback text, which is also what ensure_templates_dir writes.
TemplateContent(files, format_to_use) ==
    IF format_to_use \in DOMAIN files THEN files[format_to_use]
    ELSE ReadTemplate(format_to_use)

\* generate_release_message with the templates directory it reads.
GenerateReleaseMessageIn(files, project_name, tg, tkts, format_to_use, details) ==
    LET m1 == Replace(TemplateContent(files, format_to_use), <<"[PROJECT_NAME]">>,
                      project_name)
        m2 == Replace(m1, <<"[TAG_NAME]">>, tg)
    IN Replace(m2, <<"[TICKETS_LIST]">>, TicketsList(tkts, details))

\* generate_release_message with the default templates.
GenerateReleaseMessage(project_name, tg, tkts, format_to_use, details) ==
    GenerateReleaseMessageIn(EmptyFn, project_name, tg, tkts, format_to_use, details)

\* Arguments of generate_release_message.
CustomTemplate == <<"Release ", "[TAG_NAME]", " of ", "[PROJECT_NAME]", " (",
                    "[TAG_NAME]", ")\n", "[TICKETS_LIST]">>

TemplateDirs == {EmptyFn, [f \in {"markdown"} |-> CustomTemplate],
                 [f \in {"markdown", "plain"} |-> ReadTemplate(f)]}

ProjectNames == {<<"app">>, <<"[TAG_NAME]">>, <<"[PROJECT_NAME]">>}

ALLI_7 == ALLI \o <<"-", "7">>

ALLI_12 == ALLI \o <<"-", "1", "2">>

TicketLists == {<<>>, <<ALLI_7>>, <<ALLI_12, ALLI_7>>}

DetailEntries == {[title |-> <<"Fix login">>, status |-> <<"Done">>],
                  [title |-> <<"Fix login">>, status |-> <<>>],
                  [title |-> <<>>, status |-> <<"Done">>],
                  [title |-> <<"Use ", "[TAG_NAME]">>, status |-> <<"Done">>]}

DetailMaps == UNION { [S -> DetailEntries] : S \in SUBSET {ALLI_7, ALLI_12} }

-----------------------------------------------------------------------------
(* cli.py: release.  One action for each state of the run. *)

\* 20240101.1, 20240101.2, v1
Tag_20240101_1 == D20240101 \o <<".", "1">>
Tag_20240101_2 == D20240101 \o <<".", "2">>
Tag_v1 == <<"v", "1">>

RepoNow == [parents |-> parents, head |-> head, tags |-> tags]

\* The run ends before Done.
Abort(reason) ==
    /\ pc' = "Aborted"
    /\ trace' = Append(trace, "Aborted")
    /\ exit_reason' = reason

Goto(state) ==
    /\ pc' = state
    /\ trace' = Append(trace, state)
    /\ UNCHANGED exit_reason

HarnessIdle == call = [fn |-> "release"] /\ ret = <<>>

Init ==
    /\ HarnessIdle
    /\ parents \in Histories
    /\ head \in Commits
    /\ branch \in {"main", "feature"}
    /\ tags \in { a @@ b :
                    a \in {EmptyFn} \cup { Tag_20240101_1 :> c : c \in Commits },
                    b \in {EmptyFn, Tag_v1 :> 1} }
    /\ remote_ref \in {0} \cup Commits
    /\ upstream_tags \in
         IF remote_ref = 0 \/ BehindCount(parents, head, remote_ref) = 0
         THEN {EmptyFn}
         ELSE {EmptyFn, Tag_20240101_2 :> remote_ref, Tag_v1 :> remote_ref}
    /\ pc = "Start"
    /\ opts \in [tag : {<<>>, <<Tag_v1>>}, force : BOOLEAN, show_config : BOOLEAN]
    /\ echoed = <<>>
    /\ config \in [ticket_pattern : TicketPatterns, connector_type : {"none", "jira"}]
    /\ tag = <<>>
    /\ tag_exists = FALSE
    /\ tickets = <<>>
    /\ ticket_details = EmptyFn
    /\ release_message = <<>>
    /\ start = RepoNow
    /\ asked = {}
    /\ pull = "none"
    /\ enrich = <<>>
    /\ created = {}
    /\ trace = <<"Start">>
    /\ exit_reason = "none"

\* release, lines 335-360: what --show-config prints, given whether the
\* global and the local settings file exist.  The final configuration is
\* printed inside the branch of the local file.
ShowConfig(global_present, local_present) ==
    [global_present |-> global_present,
     local_present |-> local_present,
     sections |-> {"global_path"}
                  \cup (IF global_present THEN {"global_content"} ELSE {"global_missing"})
                  \cup (IF local_present
                        THEN {"local_path", "local_content", "final_configuration"}
                        ELSE {})]

\* release, lines 330-365: the templates directory, then --show-config or
\* the repository.
StartRun ==
    /\ pc = "Start"
    /\ IF opts.show_config
       THEN /\ \E global_present, local_present \in BOOLEAN :
                  echoed' = ShowConfig(global_present, local_present)
            /\ pc' = "ConfigShown"
            /\ trace' = Append(trace, "ConfigShown")
            /\ UNCHANGED exit_reason
       ELSE /\ Goto("BranchCheck")
            /\ UNCHANGED echoed
    /\ UNCHANGED <<harnessVars, repoVars, opts, config, tag, tag_exists, tickets,
                   ticket_details, release_message, start, asked, pull, enrich,
                   created>>

\* validate_branch and release, lines 367-370.
BranchCheck ==
    /\ pc = "BranchCheck"
    /\ IF NeedsBranchConfirm(branch, opts.force)
       THEN \E answer \in BOOLEAN :
              /\ asked' = asked \cup {<<"branch", answer>>}
              /\ IF answer THEN Goto("TagResolve") ELSE Abort("declined_branch")
       ELSE /\ Goto("TagResolve")
            /\ UNCHANGED asked
    /\ UNCHANGED <<harnessVars, repoVars, opts, echoed, config, tag, tag_exists, tickets,
                   ticket_details, release_message, start, pull, enrich, created>>

\* handle_tag and release, lines 372-375.
TagResolve ==
    /\ pc = "TagResolve"
    /\ IF opts.tag = <<>>
       THEN /\ tag' = GenerateTagName(DOMAIN tags, DefaultTagFormat, Today)
            /\ Goto("RemoteFreshnessCheck")
       ELSE IF opts.tag[1] \in DOMAIN tags
            THEN /\ Abort("tag_exists")
                 /\ UNCHANGED tag
            ELSE /\ tag' = opts.tag[1]
                 /\ Goto("RemoteFreshnessCheck")
    /\ tag_exists' = FALSE
    /\ UNCHANGED <<harnessVars, repoVars, opts, echoed, config, tickets, ticket_details,
                   release_message, start, asked, pull, enrich, created>>

\* The merge of a pull: a fast-forward when HEAD is an ancestor of the
\* remote commit, else a merge commit.
MergeCommit == NCommits + 1

PullMerge ==
    IF head \in Ancestors(parents, remote_ref)
    THEN /\ head' = remote_ref
         /\ UNCHANGED parents
    ELSE /\ parents' = parents @@ (MergeCommit :> {head, remote_ref})
         /\ head' = MergeCommit

\* check_remote_branch and release, lines 377-379.
RemoteFreshnessCheck ==
    /\ pc = "RemoteFreshnessCheck"
    /\ IF remote_ref # 0 /\ BehindCount(parents, head, remote_ref) > 0
       THEN \E answer \in BOOLEAN :
              /\ asked' = asked \cup {<<"pull", answer>>}
              /\ IF PullWanted(BehindCount(parents, head, remote_ref), answer)
                 THEN \E outcome \in PullOutcomes :
                        /\ pull' = outcome
                        /\ CASE outcome = "ok" ->
                                  /\ tags' = FetchTags(tags, upstream_tags)
                                  /\ PullMerge
                                  /\ Goto("CommitScan")
                             [] outcome = "fetch_failed" ->
                                  /\ UNCHANGED <<tags, head, parents>>
                                  /\ Abort("error_pull")
                             [] outcome = "merge_failed" ->
                                  /\ tags' = FetchTags(tags, upstream_tags)
                                  /\ UNCHANGED <<head, parents>>
                                  /\ Abort("error_pull")
                 ELSE /\ pull' = "declined"
                      /\ UNCHANGED <<tags, head, parents>>
                      /\ Goto("CommitScan")
       ELSE /\ Goto("CommitScan")
            /\ UNCHANGED <<asked, pull, tags, head, parents>>
    /\ UNCHANGED <<harnessVars, branch, remote_ref, upstream_tags, opts, echoed, config, tag,
                   tag_exists, tickets, ticket_details, release_message, start,
                   enrich, created>>

\* prepare_release, lines 230-235: last_tag, the reference point of the
\* commit range.  <<>> is None.
LastTag == IF ~tag_exists THEN FindLastTag(tags) ELSE <<tag>>

\* prepare_release, lines 237-261: the commits after the last tag.
CommitsAfterTag ==
    IF LastTag # <<>> THEN IterCommits(parents, tags[LastTag[1]], head)
    ELSE IterCommits(parents, 0, head)

\* prepare_release, lines 230-266.
CommitScan ==
    /\ pc = "CommitScan"
    /\ IF CommitsAfterTag = <<>>
       THEN /\ Abort("no_commits")
            /\ UNCHANGED tickets
       ELSE /\ tickets' = ExtractTicketsFromCommits(
                             [i \in 1..Len(CommitsAfterTag) |->
                                 MessageOf(CommitsAfterTag[i])],
                             config.ticket_pattern)
            /\ Goto("Enrichment")
    /\ UNCHANGED <<harnessVars, repoVars, opts, echoed, config, tag, tag_exists,
                   ticket_details, release_message, start, asked, pull, enrich,
                   created>>

\* prepare_release, lines 268-286.  enrich records what validate_connection
\* returned in prepare_release and in get_ticket_details, and how each
\* request for a ticket ended.
Enrichment ==
    /\ pc = "Enrichment"
    /\ IF config.connector_type # "none" /\ tickets # <<>>
       THEN \/ /\ enrich' = [valid |-> <<FALSE>>, lookups |-> EmptyFn]
               /\ ticket_details' = EmptyFn
            \/ /\ enrich' = [valid |-> <<TRUE, FALSE>>, lookups |-> EmptyFn]
               /\ ticket_details' = GetTicketDetails(tickets, FALSE, EmptyFn)
            \/ \E outcome \in [Range(tickets) -> LookupOutcomes] :
                 /\ enrich' = [valid |-> <<TRUE, TRUE>>, lookups |-> outcome]
                 /\ ticket_details' = GetTicketDetails(tickets, TRUE, outcome)
       ELSE /\ ticket_details' = EmptyFn
            /\ UNCHANGED enrich
    /\ Goto("Render")
    /\ UNCHANGED <<harnessVars, repoVars, opts, echoed, config, tag, tag_exists, tickets,
                   release_message, start, asked, pull, created>>

\* prepare_release, lines 288-313, and release, lines 386-390.
Render ==
    /\ pc = "Render"
    /\ release_message' =
          GenerateReleaseMessage(ProjectName, tag, tickets, "markdown", ticket_details)
    /\ Goto("Confirm")
    /\ UNCHANGED <<harnessVars, repoVars, opts, echoed, config, tag, tag_exists, tickets,
                   ticket_details, start, asked, pull, enrich, created>>

\* Tag creation goes ahead whatever the answer.
AfterConfirmAlways(answer) == "TagCommit"

\* release, lines 393-400: the state after the answer to the confirmation.
AfterConfirm(answer) == IF answer THEN "TagCommit" ELSE "Aborted"

\* release, lines 392-394 and 398-400.
Confirm ==
    /\ pc = "Confirm"
    /\ ~tag_exists
    /\ \E answer \in BOOLEAN :
         /\ asked' = asked \cup {<<"tag", answer>>}
         /\ IF AfterConfirm(answer) = "TagCommit"
            THEN Goto("TagCommit") ELSE Abort("declined_tag")
    /\ UNCHANGED <<harnessVars, repoVars, opts, echoed, config, tag, tag_exists, tickets,
                   ticket_details, release_message, start, pull, enrich, created>>

\* release, lines 395-397 and 402-405: repo.create_tag raises GitCommandError
\* when the repository has a tag of that name.
TagCommit ==
    /\ pc = "TagCommit"
    /\ IF tag \in DOMAIN tags
       THEN /\ Abort("error_create_tag")
            /\ UNCHANGED <<tags, created>>
       ELSE /\ tags' = tags @@ (tag :> head)
            /\ created' = created \cup {tag}
            /\ Goto("Done")
    /\ UNCHANGED <<harnessVars, parents, head, branch, remote_ref, upstream_tags,
                   opts, echoed, config, tag, tag_exists, tickets, ticket_details,
                   release_message, start, asked, pull, enrich>>

Next ==
    \/ StartRun
    \/ BranchCheck
    \/ TagResolve
    \/ RemoteFreshnessCheck
    \/ CommitScan
    \/ Enrichment
    \/ Render
    \/ Confirm
    \/ TagCommit

Spec == Init /\ [][Next]_vars

\* The run-related variables while a pure function is exercised.
RunIdle ==
    /\ parents = EmptyFn
    /\ head = 0
    /\ branch = "main"
    /\ tags = EmptyFn
    /\ remote_ref = 0
    /\ upstream_tags = EmptyFn
    /\ pc = "Idle"
    /\ opts = [tag |-> <<>>, force |-> FALSE, show_config |-> FALSE]
    /\ echoed = <<>>
    /\ config = [ticket_pattern |-> DefaultTicketPattern, connector_type |-> "none"]
    /\ tag = <<>>
    /\ tag_exists = FALSE
    /\ tickets = <<>>
    /\ ticket_details = EmptyFn
    /\ release_message = <<>>
    /\ start = [parents |-> EmptyFn, head |-> 0, tags |-> EmptyFn]
    /\ asked = {}
    /\ pull = "none"
    /\ enrich = <<>>
    /\ created = {}
    /\ trace = <<>>
    /\ exit_reason = "none"

-----------------------------------------------------------------------------
(* Harness for the pure functions: Init draws the arguments, the action    *)
(* applies the function.                                                   *)

InitTag ==
    /\ call \in [fn : {"generate_tag_name"}, tags : TagSets,
                 tag_format : TagFormats, today : Todays]
    /\ ret = <<>>
    /\ RunIdle

CallGenerateTagName ==
    /\ call.fn = "generate_tag_name"
    /\ ret = <<>>
    /\ ret' = <<GenerateTagName(call.tags, call.tag_format, call.today)>>
    /\ UNCHANGED <<call, repoVars, runVars>>

NextTag == CallGenerateTagName

SpecTag == InitTag /\ [][NextTag]_vars

InitExtract ==
    /\ call \in [fn : {"extract_tickets_from_commits"}, commits : CommitLists,
                 ticket_pattern : TicketPatterns]
    /\ ret = <<>>
    /\ RunIdle

\* The function applied to the commits and to a reordering of them.
CallExtractTickets ==
    /\ call.fn = "extract_tickets_from_commits"
    /\ ret = <<>>
    /\ \E p \in Reorderings(Len(call.commits)) :
          ret' = <<ExtractTicketsFromCommits(call.commits, call.ticket_pattern),
                   [i \in 1..Len(call.commits) |-> call.commits[p[i]]],
                   ExtractTicketsFromCommits(
                       [i \in 1..Len(call.commits) |-> call.commits[p[i]]],
                       call.ticket_pattern)>>
    /\ UNCHANGED <<call, repoVars, runVars>>

NextExtract == CallExtractTickets

SpecExtract == InitExtract /\ [][NextExtract]_vars

InitRender ==
    /\ call \in [fn : {"generate_release_message"}, files : TemplateDirs,
                 project_name : ProjectNames, tag : {Tag_v1, Tag_20240101_1},
                 tickets : TicketLists, format_to_use : {"markdown", "plain"},
                 ticket_details : DetailMaps]
    /\ ret = <<>>
    /\ RunIdle

CallGenerateReleaseMessage ==
    /\ call.fn = "generate_release_message"
    /\ ret = <<>>
    /\ ret' = <<GenerateReleaseMessageIn(call.files, call.project_name, call.tag,
                                         call.tickets, call.format_to_use,
                                         call.ticket_details)>>
    /\ UNCHANGED <<call, repoVars, runVars>>

NextRender == CallGenerateReleaseMessage

SpecRender == InitRender /\ [][NextRender]_vars

-----------------------------------------------------------------------------
(* config.py: load_config *)

\* DEFAULT_CONFIG, the keys the release reads.  "None" stands for None.
DEFAULT_CONFIG ==
    [tag_format |-> "YYYYMMDD.N",
     ticket_pattern |-> "ALLI-[0-9]+",
     message_format |-> "markdown",
     connectors |-> [type |-> "None",
                     jira |-> [api_url |-> "https://your-jira-instance.atlassian.net",
                               api_key |-> "",
                               username |-> ""]]]

\* dict.update: the keys of other replace those of d.
DictUpdate(d, other) == other @@ d

\* What a settings file can be: absent; empty (safe_load gives None);
\* yaml_error (safe_load raises YAMLError); undecodable (reading raises
\* UnicodeDecodeError, a ValueError); not_mapping (valid YAML that is a list
\* or a scalar); or a mapping, with its data.
FileKinds == {"absent", "empty", "yaml_error", "undecodable", "not_mapping"}

FileDatas ==
    {[tag_format |-> "vN"],
     [connectors |-> [type |-> "jira"]],
     [connectors |-> [jira |-> [api_url |-> "https://jira.example", username |-> "bob"]]],
     [ticket_pattern |-> "PROJ-[0-9]+",
      connectors |-> [type |-> "jira", jira |-> [api_key |-> "secret"]]],
     [connectors |-> [type |-> "github", github |-> [token |-> "t"]]]}

SettingsFiles == [kind : FileKinds] \cup [kind : {"mapping"}, data : FileDatas]

\* The exceptions load_config catches are YAMLError and IOError; reading an
\* undecodable file raises ValueError, and dict.update or .items() on a value
\* that is not a mapping raises ValueError, TypeError or AttributeError.
LoadRaises(file) == file.kind \in {"undecodable", "not_mapping"}

\* load_config, lines 73-80.
LoadGlobal(settings, global_file) ==
    IF global_file.kind = "mapping" THEN DictUpdate(settings, global_file.data)
    ELSE settings

\* load_config, lines 90-97: the connectors section after the local file.
MergeConnectors(connectors, local_connectors) ==
    LET typed == IF "type" \in DOMAIN local_connectors
                 THEN ("type" :> local_connectors["type"]) @@ connectors
                 ELSE connectors
    IN [name \in DOMAIN typed |->
          IF name # "type" /\ name \in DOMAIN local_connectors
          THEN DictUpdate(typed[name], local_connectors[name])
          ELSE typed[name]]

\* load_config, lines 83-104.
LoadLocal(settings, local_file) ==
    IF local_file.kind # "mapping" THEN settings
    ELSE LET data == local_file.data
             merged == IF "connectors" \in DOMAIN data /\ "connectors" \in DOMAIN settings
                       THEN [settings EXCEPT !["connectors"] =
                                MergeConnectors(settings["connectors"], data["connectors"])]
                       ELSE settings
             others == [key \in DOMAIN data \ {"connectors"} |-> data[key]]
         IN DictUpdate(merged, others)

\* load_config: what it returns, or that it raises.
LoadConfig(global_file, local_file) ==
    IF LoadRaises(global_file) \/ LoadRaises(local_file)
    THEN [raised |-> TRUE, config |-> EmptyFn]
    ELSE [raised |-> FALSE,
          config |-> LoadLocal(LoadGlobal(DEFAULT_CONFIG, global_file), local_file)]

InitConfig ==
    /\ call \in [fn : {"load_config"}, global_file : SettingsFiles,
                 local_file : SettingsFiles]
    /\ ret = <<>>
    /\ RunIdle

CallLoadConfig ==
    /\ call.fn = "load_config"
    /\ ret = <<>>
    /\ ret' = <<LoadConfig(call.global_file, call.local_file)>>
    /\ UNCHANGED <<call, repoVars, runVars>>

NextConfig == CallLoadConfig

SpecConfig == InitConfig /\ [][NextConfig]_vars

-----------------------------------------------------------------------------
(* config.py: ensure_templates_dir *)

\* The two files ensure_templates_dir writes when they are missing.
DefaultTemplates == [f \in {"markdown", "plain"} |-> ReadTemplate(f)]

\* ensure_templates_dir writing the default templates over the files.
EnsureTemplatesDirOverwriting(dir) ==
    [exists |-> TRUE, files |-> DefaultTemplates @@ dir.files]

\* ensure_templates_dir: dir is the templates directory, whether it exists
\* and the content of each template file in it.
EnsureTemplatesDir(dir) ==
    [exists |-> TRUE, files |-> dir.files @@ DefaultTemplates]

\* The directory before the call: absent, or with any of three files, each
\* empty, with the default text or with a text of the user.
TemplateNames == {"markdown", "plain", "html"}

TemplateTexts == {<<>>, CustomTemplate, ReadTemplate("markdown")}

TemplatesDirs ==
    {[exists |-> FALSE, files |-> EmptyFn]} \cup
    { [exists |-> TRUE, files |-> fs] :
         fs \in UNION { [S -> TemplateTexts] : S \in SUBSET TemplateNames } }

InitTemplates ==
    /\ call \in [fn : {"ensure_templates_dir"}, dir : TemplatesDirs]
    /\ ret = <<>>
    /\ RunIdle

\* The bootstrap run once, and once more on what it left.
CallEnsureTemplatesDir ==
    /\ call.fn = "ensure_templates_dir"
    /\ ret = <<>>
    /\ ret' = <<EnsureTemplatesDir(call.dir),
               EnsureTemplatesDir(EnsureTemplatesDir(call.dir))>>
    /\ UNCHANGED <<call, repoVars, runVars>>

NextTemplates == CallEnsureTemplatesDir

SpecTemplates == InitTemplates /\ [][NextTemplates]_vars

-----------------------------------------------------------------------------
(* Properties *)

\* The numbers of the tags whose whole name is tag_base with N replaced by a
\* string of digits, every other character standing for itself.
WholeNameNumbers(tag_names, tag_base) ==
    LET n == IndexFrom(tag_base, 1, "N")
        before == SubSeq(tag_base, 1, n - 1)
        after == SubSeq(tag_base, n + 1, Len(tag_base))
    IN { ParseInt(SubSeq(t, n, Len(t) - Len(after))) :
           t \in { u \in tag_names :
                     /\ Len(u) >= Len(tag_base)
                     /\ SubSeq(u, 1, n - 1) = before
                     /\ SubSeq(u, Len(u) - Len(after) + 1, Len(u)) = after
                     /\ \A k \in n..(Len(u) - Len(after)) : u[k] \in Digits } }

\* C1: generate_tag_name returns a name that no existing tag has, and the
\* number it puts for N is 1 when no existing tag matches the format for
\* today's date, else one more than the largest number of the matching tags.
C1_FreshNameNextNumber ==
    (call.fn = "generate_tag_name" /\ ret # <<>>) =>
        LET tag_base == TagBase(call.tag_format, call.today)
            numbers == WholeNameNumbers(call.tags, tag_base)
            n == IF numbers = {} THEN 1 ELSE SetMax(numbers) + 1
        IN /\ ret[1] \notin call.tags
           /\ ret[1] = Replace(tag_base, <<"N">>, IntToStr(n))

Running == pc # "Idle"

\* The tags the repository has now and did not have when the run started.
AddedTags == DOMAIN tags \ DOMAIN start.tags

StartTagsKept == \A t \in DOMAIN start.tags : t \in DOMAIN tags /\ tags[t] = start.tags[t]

\* C2 as stated: in a run the tag set only grows, no existing tag is changed
\* or removed, at most one tag is added, and a tag is added only after the
\* user answered yes to the tag-creation confirmation.
C2_AtMostOneConfirmedTag ==
    Running =>
        /\ StartTagsKept
        /\ Cardinality(AddedTags) <= 1
        /\ AddedTags # {} => <<"tag", TRUE>> \in asked

\* C2, amended: no existing tag is changed or removed; the command itself
\* creates at most one tag, at HEAD, and only after the user answered yes to
\* the tag-creation confirmation; every other added tag is a tag of the
\* remote that a pull the user accepted has fetched.
C2_TagsOnlyGrow ==
    Running =>
        /\ StartTagsKept
        /\ Cardinality(created) <= 1
        /\ created # {} => <<"tag", TRUE>> \in asked
        /\ \A t \in AddedTags :
              \/ t \in created /\ tags[t] = head
              \/ /\ t \in DOMAIN upstream_tags
                 /\ tags[t] = upstream_tags[t]
                 /\ <<"pull", TRUE>> \in asked
                 /\ pull \in {"ok", "merge_failed"}

\* A run with --force that fetched one tag in an accepted pull and then
\* created its own after the confirmation.
C2_Witness ==
    /\ pc = "Done"
    /\ opts.force
    /\ created # {}
    /\ AddedTags \ created # {}

UserStops == {"declined_branch", "tag_exists", "no_commits", "declined_tag"}

C4_NoSuchTagAtTagCommit == pc = "TagCommit" => tag \notin DOMAIN tags

RunOrder == <<"Start", "BranchCheck", "TagResolve", "RemoteFreshnessCheck",
              "CommitScan", "Enrichment", "Render", "Confirm", "TagCommit">>

\* C5: the states of a run are a prefix of RunOrder followed by Done or
\* Aborted; Done comes only after all of them, and Aborted only from
\* BranchCheck (declined), TagResolve (tag exists), CommitScan (no commits)
\* or Confirm (declined).
C5_RunOrder ==
    (Running /\ ~opts.show_config) =>
        LET ended == pc \in {"Done", "Aborted"}
            body == IF ended THEN SubSeq(trace, 1, Len(trace) - 1) ELSE trace
            last == body[Len(body)]
        IN /\ Len(body) <= Len(RunOrder)
           /\ body = SubSeq(RunOrder, 1, Len(body))
           /\ pc = "Done" => body = RunOrder
           /\ pc = "Aborted" =>
                \/ last = "BranchCheck" /\ exit_reason = "declined_branch"
                \/ last = "TagResolve" /\ exit_reason = "tag_exists"
                \/ last = "CommitScan" /\ exit_reason = "no_commits"
                \/ last = "Confirm" /\ exit_reason = "declined_tag"

\* C6: when the user accepted the pull and the pull failed, the release is
\* not aborted: the run goes on to the commit scan.
C6_FailedPullGoesOn ==
    pull \in {"fetch_failed", "merge_failed"} =>
        /\ ~(pc = "Aborted" /\ trace[Len(trace) - 1] = "RemoteFreshnessCheck")
        /\ \E i \in 1..Len(trace) : trace[i] = "CommitScan"

BranchPromptShown == \E answer \in BOOLEAN : <<"branch", answer>> \in asked

\* C7: a tag is created on a branch outside the default-branch list only with
\* --force or after a yes to the branch prompt, and the prompt is shown
\* exactly when the branch is outside the list and --force is absent.
C7_BranchGuard ==
    /\ (created # {} /\ branch \notin DefaultBranches) =>
           (opts.force \/ <<"branch", TRUE>> \in asked)
    /\ Len(trace) > 2 =>
           (BranchPromptShown <=> (branch \notin DefaultBranches /\ ~opts.force))

\* A tag created on a feature branch, without --force, after a yes.
C7_Witness ==
    /\ pc = "Done"
    /\ created # {}
    /\ branch = "feature"
    /\ ~opts.force
    /\ <<"branch", TRUE>> \in asked

\* The matches of the pattern in s, each as the whole matched text.
RECURSIVE WholeMatchesFrom(_, _, _)
WholeMatchesFrom(rx, s, i) ==
    IF i > Len(s) THEN {}
    ELSE LET m == RegexMatchAt(rx, s, i)
         IN IF m = {} THEN WholeMatchesFrom(rx, s, i + 1)
            ELSE LET mo == CHOOSE x \in m : TRUE
                 IN {mo.whole} \cup
                    WholeMatchesFrom(rx, s, IF mo.end > i THEN mo.end ELSE i + 1)

\* The commits reachable from the tip and not from the last tag (all the
\* commits reachable from the tip when there is no tag).
CommitsSinceLastTag ==
    Ancestors(parents, head) \
        (IF DOMAIN tags = {} THEN {}
         ELSE Ancestors(parents, tags[FindLastTag(tags)[1]]))

\* C8: the ticket list prepare_release hands to the renderer is the set of
\* distinct matches of the ticket pattern over the messages of the commits
\* reachable from the tip and not from the last tag.
C8_TicketsAreMatchesInRange ==
    pc \in {"Enrichment", "Render"} =>
        tickets = Sorted(UNION { WholeMatchesFrom(RegexCompile(config.ticket_pattern),
                                                  MessageOf(c), 1) :
                                    c \in CommitsSinceLastTag })

\* C9: extract_tickets_from_commits returns a list without duplicates in
\* ascending string order (code point by code point, so ALLI-12 is before
\* ALLI-7), and returns the same list for the commits in any other order
\* and for the same commits again.
C9_SortedAndOrderInsensitive ==
    (call.fn = "extract_tickets_from_commits" /\ ret # <<>>) =>
        /\ \A i, j \in 1..Len(ret[1]) : i < j => StrLess(ret[1][i], ret[1][j])
        /\ ret[3] = ret[1]

\* ALLI-12 before ALLI-7, from commits given in another order.
C9_Witness ==
    /\ call.fn = "extract_tickets_from_commits"
    /\ ret # <<>>
    /\ ret[2] # call.commits
    /\ ret[1] = <<ALLI \o <<"-", "1", "2">>, ALLI \o <<"-", "7">>>>

ValidationFailed == enrich # <<>> /\ FALSE \in Range(enrich.valid)

LookupNetErrors == IF enrich = <<>> THEN {}
                   ELSE { t \in DOMAIN enrich.lookups : enrich.lookups[t] = "net_error" }

Rendered == \E i \in 1..Len(trace) : trace[i] = "Confirm"

\* The message of the path without enrichment.
BareMessage == GenerateReleaseMessage(ProjectName, tag, tickets, "markdown", EmptyFn)

\* sub occurs in s.
Contains(s, sub) ==
    \E i \in 1..(Len(s) - Len(sub) + 1) : SubSeq(s, i, i + Len(sub) - 1) = sub

\* C10 as stated: when enrichment fails on network errors, in the validation
\* or in the requests for the tickets, the release message is not empty and
\* its ticket list is that of the path without enrichment.
C10_FailedEnrichmentIsBare ==
    (Rendered /\ (ValidationFailed \/ LookupNetErrors # {})) =>
        /\ release_message # <<>>
        /\ release_message = BareMessage

\* C10, amended: when enrichment fails the release message is still produced
\* and not empty.  When the connection validation fails, its ticket list is
\* that of the path without enrichment, one bare line for each ticket.  When
\* the validation succeeds and the request for a ticket fails on a network
\* error, the line of that ticket carries the error title and the status
\* Error.
C10_FailedEnrichmentDegrades ==
    (Rendered /\ (ValidationFailed \/ LookupNetErrors # {})) =>
        /\ release_message # <<>>
        /\ ValidationFailed => release_message = BareMessage
        /\ \A t \in LookupNetErrors :
              Contains(release_message,
                       <<"- ">> \o t \o <<": ", "Error fetching ticket: ", "timeout",
                                          " (", "Error", ")">>)

\* The validation inside get_ticket_details failed for a release with two
\* tickets or more.
C10_Witness ==
    /\ pc = "Confirm"
    /\ enrich # <<>>
    /\ enrich.valid = <<TRUE, FALSE>>
    /\ Len(tickets) >= 2

\* get_ticket_details was called in this run.
GotTicketDetails == enrich # <<>> /\ Len(enrich.valid) = 2

FailedLookups == { t \in DOMAIN enrich.lookups : enrich.lookups[t] # "ok" }

Placeholders == {<<"Unknown">>, <<"Error">>}

\* C11 as stated: get_ticket_details returns an empty mapping when the
\* validation fails; when it succeeds the keys are the requested tickets, and
\* a ticket whose request got a non-success response or a transport error
\* has the placeholders Unknown and Error as its title and status.
C11_PlaceholderTitleAndStatus ==
    GotTicketDetails =>
        /\ ~enrich.valid[2] => ticket_details = EmptyFn
        /\ enrich.valid[2] =>
              /\ DOMAIN ticket_details = Range(tickets)
              /\ \A t \in FailedLookups :
                    /\ ticket_details[t].title \in Placeholders
                    /\ ticket_details[t].status \in Placeholders

\* C11, amended: the same, but the placeholders are the status only, Unknown
\* after a non-success response and Error after a transport error; the title
\* is "Could not fetch ticket details" after a non-success response and
\* "Error fetching ticket: " followed by the error after a transport error.
C11_EntryForEveryTicket ==
    GotTicketDetails =>
        /\ ~enrich.valid[2] => ticket_details = EmptyFn
        /\ enrich.valid[2] =>
              /\ DOMAIN ticket_details = Range(tickets)
              /\ \A t \in FailedLookups :
                    IF enrich.lookups[t] = "http_error"
                    THEN /\ ticket_details[t].title = <<"Could not fetch ticket details">>
                         /\ ticket_details[t].status = <<"Unknown">>
                    ELSE /\ ticket_details[t].title[1] = "Error fetching ticket: "
                         /\ Len(ticket_details[t].title) = 2
                         /\ ticket_details[t].status = <<"Error">>

\* Two tickets, one request answered with a non-success response and one
\* ended by a transport error.
C11_Witness ==
    /\ GotTicketDetails
    /\ enrich.valid[2]
    /\ {enrich.lookups[t] : t \in DOMAIN enrich.lookups} = {"http_error", "net_error"}
    /\ DOMAIN ticket_details = Range(tickets)

PlaceholderTokens == {"[PROJECT_NAME]", "[TAG_NAME]", "[TICKETS_LIST]"}

\* C12: for every template and every non-empty project name, tag name and
\* ticket list, with any enrichment details, the message that
\* generate_release_message returns contains none of the three placeholder
\* tokens.
C12_NoPlaceholderLeft ==
    (call.fn = "generate_release_message" /\ ret # <<>> /\ call.tickets # <<>>) =>
        \A i \in 1..Len(ret[1]) : ret[1][i] \notin PlaceholderTokens

\* The line the ticket list is to have for a ticket.
ExpectedLine(ticket, details) ==
    IF ticket \in DOMAIN details /\ details[ticket].title # <<>>
    THEN IF details[ticket].status # <<>>
         THEN <<"- ">> \o ticket \o <<": ">> \o details[ticket].title
                  \o <<" (">> \o details[ticket].status \o <<")">>
         ELSE <<"- ">> \o ticket \o <<": ">> \o details[ticket].title
    ELSE <<"- ">> \o ticket

RECURSIVE ExpectedList(_, _, _)
ExpectedList(tkts, details, i) ==
    IF i > Len(tkts) THEN <<>>
    ELSE (IF i > 1 THEN <<"\n">> ELSE <<>>) \o ExpectedLine(tkts[i], details)
             \o ExpectedList(tkts, details, i + 1)

\* The text of the message after the part that the template gives: every
\* template of TemplateDirs ends with the ticket list placeholder.
TicketsSection(message, template_content) ==
    LET before == Len(Replace(Replace(SubSeq(template_content, 1, Len(template_content) - 1),
                                      <<"[PROJECT_NAME]">>, call.project_name),
                              <<"[TAG_NAME]">>, call.tag))
    IN SubSeq(message, before + 1, Len(message))

\* C13: the ticket list of the message has one line for each ticket, in the
\* order given: "- id: title (status)" when the details give the ticket a
\* title and a status, "- id: title" when they give only a title, "- id"
\* otherwise; for no tickets it is "No tickets found in this release."
C13_TicketLines ==
    (call.fn = "generate_release_message" /\ ret # <<>>) =>
        TicketsSection(ret[1], TemplateContent(call.files, call.format_to_use)) =
            IF call.tickets = <<>> THEN <<"No tickets found in this release.">>
            ELSE ExpectedList(call.tickets, call.ticket_details, 1)

\* Two tickets, one with a title only and one with a status only.
C13_Witness ==
    /\ call.fn = "generate_release_message"
    /\ ret # <<>>
    /\ call.tickets = <<ALLI_12, ALLI_7>>
    /\ DOMAIN call.ticket_details = {ALLI_12, ALLI_7}
    /\ call.ticket_details[ALLI_12].status = <<>>
    /\ call.ticket_details[ALLI_7].title = <<>>

\* The settings before the local file is applied: the defaults overlaid with
\* the global file.
GlobalSettings == LoadGlobal(DEFAULT_CONFIG, call.global_file)

\* The keys of a connector in the global settings, none when they do not
\* have the connector.
GlobalKeys(name) ==
    IF name \in DOMAIN GlobalSettings.connectors THEN GlobalSettings.connectors[name]
    ELSE EmptyFn

LocalHasConnectors ==
    /\ call.fn = "load_config"
    /\ call.local_file.kind = "mapping"
    /\ "connectors" \in DOMAIN call.local_file.data

\* C14: in the settings load_config returns the connector type of the local
\* file wins when the local file has one, and for every named connector of
\* the local file its keys are overlaid onto the global keys of that
\* connector.
C14_ConnectorsMerged ==
    (LocalHasConnectors /\ ret # <<>> /\ ~ret[1].raised) =>
        LET local == call.local_file.data.connectors
            got == ret[1].config.connectors
        IN /\ "type" \in DOMAIN local => got.type = local.type
           /\ "type" \notin DOMAIN local => got.type = GlobalSettings.connectors.type
           /\ \A name \in DOMAIN local \ {"type"} :
                 /\ name \in DOMAIN got
                 /\ got[name] = local[name] @@ GlobalKeys(name)

Malformed == {"yaml_error", "undecodable", "not_mapping"}

Absent == [kind |-> "absent"]

\* C15: with a malformed global file load_config returns the defaults
\* overlaid with the local file, with a malformed local file the defaults
\* overlaid with the global file, and it does not raise.
C15_MalformedFallsBack ==
    (call.fn = "load_config" /\ ret # <<>>) =>
        /\ (call.global_file.kind \in Malformed /\ call.local_file.kind \notin Malformed) =>
              /\ ~ret[1].raised
              /\ ret[1].config = LoadLocal(DEFAULT_CONFIG, call.local_file)
        /\ (call.local_file.kind \in Malformed /\ call.global_file.kind \notin Malformed) =>
              /\ ~ret[1].raised
              /\ ret[1].config = LoadGlobal(DEFAULT_CONFIG, call.global_file)

\* C16: a run with --show-config prints the path and the content of the
\* global settings, the path and the content of the local settings when the
\* local file is present, and the merged settings in every case, and ends
\* without a branch check, a pull or a tag creation.
C16_ShowConfigPrintsAll ==
    (Running /\ opts.show_config /\ pc # "Start") =>
        /\ pc = "ConfigShown"
        /\ "global_path" \in echoed.sections
        /\ echoed.global_present => "global_content" \in echoed.sections
        /\ echoed.local_present =>
              {"local_path", "local_content"} \subseteq echoed.sections
        /\ "final_configuration" \in echoed.sections
        /\ RepoNow = start
        /\ asked = {} /\ pull = "none" /\ created = {}

\* C17: ensure_templates_dir leaves the content of every template file that
\* exists as it is, and a second run leaves the directory as the first run
\* left it.
C17_BootstrapIdempotent ==
    (call.fn = "ensure_templates_dir" /\ ret # <<>>) =>
        /\ \A f \in DOMAIN call.dir.files : ret[1].files[f] = call.dir.files[f]
        /\ ret[2] = ret[1]

\* A directory with a markdown template of the user and no plain template:
\* the first run writes the plain one only.
C17_Witness ==
    /\ call.fn = "ensure_templates_dir"
    /\ ret # <<>>
    /\ call.dir.exists
    /\ DOMAIN call.dir.files = {"markdown"}
    /\ call.dir.files["markdown"] = CustomTemplate
    /\ ret[1].files["markdown"] = CustomTemplate
    /\ ret[1].files["plain"] = ReadTemplate("plain")

\* The tags whose whole name is tag_base with N replaced by a string of
\* digits.
WholeNameTags(tag_names, tag_base) ==
    LET n == IndexFrom(tag_base, 1, "N")
        after == SubSeq(tag_base, n + 1, Len(tag_base))
    IN { u \in tag_names :
           /\ Len(u) >= Len(tag_base)
           /\ SubSeq(u, 1, n - 1) = SubSeq(tag_base, 1, n - 1)
           /\ SubSeq(u, Len(u) - Len(after) + 1, Len(u)) = after
           /\ \A k \in n..(Len(u) - Len(after)) : u[k] \in Digits }

\* The tags whose number generate_tag_name takes into matching_tags.
ContributingTags(tag_names, tag_base) ==
    { u \in tag_names : RegexMatch(RegexCompile(TagPattern(tag_base)), u) # {} }

\* C18: in generate_tag_name a tag contributes its number exactly when its
\* whole name is the date-substituted base with N replaced by digits: the
\* other characters of the format match only themselves and nothing may
\* follow the matched part.
C18_WholeNameMatchOnly ==
    (call.fn = "generate_tag_name" /\ ret # <<>>) =>
        ContributingTags(call.tags, TagBase(call.tag_format, call.today)) =
            WholeNameTags(call.tags, TagBase(call.tag_format, call.today))

\* C19: when prepare_release runs tag_exists is false, and the reference
\* point of the commit range is never the requested or generated tag: it is
\* the existing tag on the latest commit of all tagged commits, ancestor of
\* the tip or not, or none when the repository has no tags.
C19_ReferenceIsLatestOtherTag ==
    pc = "CommitScan" =>
        /\ ~tag_exists
        /\ LastTag # <<tag>>
        /\ DOMAIN tags = {} => LastTag = <<>>
        /\ DOMAIN tags # {} =>
              /\ LastTag # <<>>
              /\ LastTag[1] \in DOMAIN tags
              /\ \A u \in DOMAIN tags : tags[LastTag[1]] >= tags[u]

=============================================================================
